---- MODULE Spec2Model ----
(***************************************************************************)
(* Pose ingestion core of body-tracking-fusion-model: the UDP/JSON packet  *)
(* listener (udp_pose_receiver.py) and the shared FusionWorkspace          *)
(* (fusion_workspace.py), as used by the MediaPipe process (one event      *)
(* loop) and the SynthPose process (event loop + capture thread).          *)
(*                                                                         *)
(* Numbers (timestamps, coordinates) are fixed-point: an integer n stands  *)
(* for n / 100, so 1025 is 10.25.                                          *)
(***************************************************************************)
EXTENDS Integers, Sequences, FiniteSets, TLC

VARIABLES
    latest_upper_body,   \* FusionWorkspace.latest_upper_body
    latest_lower_body,   \* FusionWorkspace.latest_lower_body
    _mp_frame_idx,       \* FusionWorkspace._mp_frame_idx (NoAttr until first set)
    listener,            \* the datagram transport of run_server
    camera,              \* the camera loop of the embedding process
    op,                  \* the operation that ran last
    arg,                 \* its argument
    handler_calls,       \* the handler invocations it made, in order
    raised,              \* the exception that escaped it ("none" if it returned)
    logged,              \* the log records it emitted, in order
    calls,               \* update_lower_body calls completed so far
    last_packet,         \* the packet of the most recent handle_quest_packet call, if any
    last_snapshots,      \* the snapshots of the two most recent update_lower_body calls
    prior_raised,        \* whether the handler raised in the datagram just before this one
    pc,                  \* per thread: the statement it executes next
    local,               \* per thread: the running call's argument and the values it has read
    passed_upper,        \* the packets passed to handle_quest_packet so far
    passed_lower,        \* the snapshots passed to update_lower_body so far
    started,             \* workspace calls started by the threads so far
    port,                \* the UDP port the listener is to bind: "free" or "in_use"
    ready,               \* the event loop's queue of callbacks ready to run, oldest first
    osc_task,            \* the task running run_server: where it waits, or how it ended
    inbox,               \* datagrams that have arrived at the socket and are not yet read
    objects,             \* the live PoseSnapshot objects, by identity
    lower_ref            \* the identity of the object latest_lower_body refers to (0: none)

vars == <<latest_upper_body, latest_lower_body, _mp_frame_idx, listener, camera,
          op, arg, handler_calls, raised, logged, calls, last_packet, last_snapshots,
          prior_raised, pc, local, passed_upper, passed_lower, started,
          port, ready, osc_task, inbox, objects, lower_ref>>

\* what the threaded specifications add to the state
thread_vars == <<pc, local, passed_upper, passed_lower, started>>

\* what only the single-loop specifications use
loop_vars == <<listener, camera, op, arg, handler_calls, raised, logged, last_packet,
               last_snapshots, prior_raised>>

\* the event loop's tasks and socket, which only the task-level specification uses
task_vars == <<port, ready, osc_task, inbox>>

\* the snapshot objects, which only the producer-cycle specification uses
object_vars == <<objects, lower_ref>>

----------------------------------------------------------------------------
(* Bounds of the model. *)

\* update_lower_body calls in the full specification
MaxCalls == 2
\* update_lower_body calls in the camera-only specification (two log periods)
MaxFrames == 121
\* workspace calls started in the threaded specifications
MaxStarted == 3
\* snapshots published in the producer-cycle specification (one log period and one more)
MaxCycles == 61
\* datagrams the socket buffers in the event-loop specification
MaxInbox == 1

----------------------------------------------------------------------------
(* Python values, as json.loads and the producers build them. *)

PyNone == [type |-> "NoneType"]
PyBool(b) == [type |-> "bool", flag |-> b]
PyNum(n) == [type |-> "number", val |-> n]
PyStr(s) == [type |-> "str", text |-> s]
\* a list is known by its length: the code only takes len() and truth of one
PyList(n) == [type |-> "list", len |-> n]
\* items: a function from the keys present to their values
PyDict(items) == [type |-> "dict", items |-> items]

EmptyItems == [k \in {} |-> PyNone]

\* len() and float() of the strings the model sends
StrLen(s) ==
    CASE s = "" -> 0
      [] s = "abc" -> 3
      [] s = "10.5" -> 4

\* float(str): the number a numeric literal denotes, ValueError otherwise
FloatOfStr(s) ==
    CASE s = "10.5" -> [exc |-> "none", val |-> 1050]
      [] OTHER -> [exc |-> "ValueError", val |-> 0]

\* bool(v)
Truthy(v) ==
    CASE v.type = "NoneType" -> FALSE
      [] v.type = "bool" -> v.flag
      [] v.type = "number" -> v.val # 0
      [] v.type = "str" -> StrLen(v.text) # 0
      [] v.type = "list" -> v.len # 0
      [] v.type = "dict" -> DOMAIN v.items # {}
      [] OTHER -> TRUE   \* a PoseSnapshot defines neither __bool__ nor __len__

\* a or b
PyOr(a, b) == IF Truthy(a) THEN a ELSE b

\* len(v)
PyLen(v) ==
    CASE v.type = "str" -> [exc |-> "none", val |-> StrLen(v.text)]
      [] v.type = "list" -> [exc |-> "none", val |-> v.len]
      [] v.type = "dict" -> [exc |-> "none", val |-> Cardinality(DOMAIN v.items)]
      [] OTHER -> [exc |-> "TypeError", val |-> 0]

\* float(v)
PyFloat(v) ==
    CASE v.type = "number" -> [exc |-> "none", val |-> v.val]
      [] v.type = "bool" -> [exc |-> "none", val |-> IF v.flag THEN 100 ELSE 0]
      [] v.type = "str" -> FloatOfStr(v.text)
      [] OTHER -> [exc |-> "TypeError", val |-> 0]

\* d.get(key, default) of a dict
DictGet(d, key, default) ==
    IF key \in DOMAIN d.items THEN d.items[key] ELSE default

----------------------------------------------------------------------------
(* What arrives on the socket.  A datagram's bytes are either not UTF-8 or *)
(* the encoding of a text; a text is either no JSON document or one.       *)

JNull == [json |-> "null"]
JBool(b) == [json |-> "bool", flag |-> b]
JNumber(n) == [json |-> "number", val |-> n]
JString(s) == [json |-> "string", text |-> s]
JArray(n) == [json |-> "array", len |-> n]
JObject(members) == [json |-> "object", members |-> members]

InvalidUtf8 == [encoding |-> "invalid"]
Utf8(text) == [encoding |-> "utf-8", text |-> text]
Malformed == [syntax |-> "malformed"]
Document(doc) == [syntax |-> "json", doc |-> doc]

\* bytes.decode("utf-8")
decode_utf8(data) ==
    IF data.encoding = "utf-8"
    THEN [exc |-> "none", text |-> data.text]
    ELSE [exc |-> "UnicodeDecodeError", text |-> Malformed]

\* the Python value json.loads builds for a JSON document
RECURSIVE json_value(_)
json_value(doc) ==
    CASE doc.json = "null" -> PyNone
      [] doc.json = "bool" -> PyBool(doc.flag)
      [] doc.json = "number" -> PyNum(doc.val)
      [] doc.json = "string" -> PyStr(doc.text)
      [] doc.json = "array" -> PyList(doc.len)
      [] doc.json = "object" ->
            PyDict([k \in DOMAIN doc.members |-> json_value(doc.members[k])])

\* json.loads(text)
json_loads(text) ==
    IF text.syntax = "json"
    THEN [exc |-> "none", value |-> json_value(text.doc)]
    ELSE [exc |-> "JSONDecodeError", value |-> PyNone]

\* the JSON values the model puts in each field of a packet
JTimestamps ==
    {JNull, JNumber(1000), JNumber(950), JBool(TRUE), JString("abc"), JString("10.5")}
JJoints == {JNull, JArray(0), JArray(2), JNumber(5), JString("abc")}
JHmds == {JObject([k \in {} |-> JNull]), JNumber(5)}

\* objects: none, one or two of the fields present
JPackets ==
    {JObject([k \in {} |-> JNull])}
    \cup {JObject([k \in {"timestamp"} |-> t]) : t \in JTimestamps}
    \cup {JObject([k \in {"joints"} |-> j]) : j \in JJoints}
    \cup {JObject([k \in {"hmd"} |-> h]) : h \in JHmds}
    \cup {JObject([timestamp |-> JNumber(1000), joints |-> j]) : j \in {JArray(2), JNumber(5)}}

\* JSON documents that are not objects
JOthers == {JNull, JNumber(0), JNumber(7), JArray(0), JArray(2)}

Datagrams ==
    {InvalidUtf8, Utf8(Malformed)} \cup {Utf8(Document(d)) : d \in JPackets \cup JOthers}

Addrs == {"192.168.0.2:5005", "192.168.0.3:5005"}

----------------------------------------------------------------------------
(* What the camera pipelines publish. *)

PoseSnapshot(timestamp, landmarks) ==
    [type |-> "PoseSnapshot", timestamp |-> timestamp, landmarks |-> landmarks]

NoLandmarks == [k \in {} |-> PyNone]
Nose == [nose |-> [x |-> 100, y |-> 200, z |-> 300, visibility |-> 90]]

Snapshots == {PoseSnapshot(t, l) : t \in {975, 1025}, l \in {NoLandmarks, Nose}}

----------------------------------------------------------------------------
(* FusionWorkspace.  A workspace value ws is the record of its attributes; *)
(* an operation yields the workspace it leaves, the exception that escapes *)
(* it and the log records it emits.                                        *)

\* the attribute _mp_frame_idx does not exist: hasattr(self, "_mp_frame_idx") is false
NoAttr == -1
\* the diagnostic dump is logged every LogEvery-th frame
LogEvery == 60

\* FusionWorkspace.__init__
NewWorkspace ==
    [latest_upper_body |-> PyNone, latest_lower_body |-> PyNone, frame_idx |-> NoAttr]

\* self.latest_upper_body = packet
AssignUpper(current, packet) == packet

\* a store that keeps the snapshot held when the new one shows no landmark
AssignLowerIfVisible(current, snapshot) ==
    IF DOMAIN snapshot.landmarks = {} THEN current ELSE snapshot

\* a store that refuses a snapshot older than the one it holds
AssignLowerIfNewer(current, snapshot) ==
    IF current.type = "PoseSnapshot" /\ snapshot.timestamp < current.timestamp
    THEN current
    ELSE snapshot

\* a store that copies the snapshot into the held one field by field, timestamp first
AssignLowerFieldwise(current, snapshot) ==
    IF current.type = "PoseSnapshot"
    THEN [current EXCEPT !.timestamp = snapshot.timestamp]
    ELSE snapshot

\* self.latest_lower_body = snapshot
AssignLower(current, snapshot) == snapshot

\* a counter created at 0 by the first call
NextFrameIdxFromZero(idx) == IF idx # NoAttr THEN idx + 1 ELSE 0

\* if hasattr(self, "_mp_frame_idx"): self._mp_frame_idx += 1  else: self._mp_frame_idx = 1
NextFrameIdx(idx) == IF idx # NoAttr THEN idx + 1 ELSE 1

\* if self._mp_frame_idx % 60 == 0
LogDue(idx) == idx % LogEvery = 0

\* a guard that forgets the upper body
LowerLive(upper, lower) == Truthy(lower)

\* if not self.latest_upper_body or not self.latest_lower_body: return
BothLive(upper, lower) == ~(~Truthy(upper) \/ ~Truthy(lower))

\* try: quest_ts = float(self.latest_upper_body.get("timestamp", 0.0))
\* except Exception: quest_ts = 0.0
\* (.get of a value that is no dict raises AttributeError inside the try)
QuestTs(upper) ==
    IF upper.type # "dict"
    THEN 0
    ELSE LET f == PyFloat(DictGet(upper, "timestamp", PyNum(0)))
         IN IF f.exc = "none" THEN f.val ELSE 0

\* the difference taken the other way round
DeltaReversed(camera_ts, quest_ts) == quest_ts - camera_ts

\* delta = pose_estimation_by_camera_ts - quest_ts
Delta(camera_ts, quest_ts) == camera_ts - quest_ts

\* FusionWorkspace._log_workspace_state: the records it logs
_log_workspace_state(upper, lower) ==
    IF ~BothLive(upper, lower)
    THEN <<>>
    ELSE << [msg |-> "Fusion workspace ready",
             quest_ts |-> QuestTs(upper),
             camera_ts |-> lower.timestamp,
             delta |-> Delta(lower.timestamp, QuestTs(upper))] >>

\* lm.get(key, 0.0) of one landmark
LandmarkGet(lm, key) == IF key \in DOMAIN lm THEN lm[key] ELSE 0

\* the throttled dump of update_lower_body (the keypoint lines as a set)
SnapshotDump(snapshot) ==
    IF DOMAIN snapshot.landmarks # {}
    THEN [msg |-> "Pose snapshot from camera",
          timestamp |-> snapshot.timestamp,
          keypoints |->
            {[name |-> n,
              x |-> LandmarkGet(snapshot.landmarks[n], "x"),
              y |-> LandmarkGet(snapshot.landmarks[n], "y"),
              z |-> LandmarkGet(snapshot.landmarks[n], "z"),
              visibility |-> LandmarkGet(snapshot.landmarks[n], "visibility")]
             : n \in DOMAIN snapshot.landmarks}]
    ELSE [msg |-> "Pose snapshot from camera (no landmarks visible)",
          timestamp |-> snapshot.timestamp]

\* joint_count = len(packet.get("joints", []) or [])
JointCount(packet) == PyLen(PyOr(DictGet(packet, "joints", PyList(0)), PyList(0)))

\* logger.info("Unity OSC packet from %s @ %.3f with %d joints", addr, timestamp, joint_count)
\* %.3f formats a real number only; logging reports any other timestamp on stderr
\* ("--- Logging error ---") and does not raise
QuestPacketLine(addr, timestamp, joint_count) ==
    IF timestamp.type \in {"number", "bool"}
    THEN [msg |-> "Unity OSC packet", addr |-> addr, timestamp |-> timestamp,
          joints |-> joint_count]
    ELSE [msg |-> "--- Logging error ---", addr |-> addr, timestamp |-> timestamp,
          joints |-> joint_count]

\* FusionWorkspace.handle_quest_packet
handle_quest_packet(ws, packet, addr) ==
    LET stored == [ws EXCEPT !.latest_upper_body = AssignUpper(@, packet)]
    IN  IF packet.type # "dict"
        THEN \* packet.get: 'list' (int, str, NoneType ...) object has no attribute 'get'
             [ws |-> stored, raised |-> "AttributeError", logged |-> <<>>]
        ELSE IF JointCount(packet).exc # "none"
        THEN [ws |-> stored, raised |-> JointCount(packet).exc, logged |-> <<>>]
        ELSE [ws |-> stored,
              raised |-> "none",
              logged |->
                << QuestPacketLine(addr, DictGet(packet, "timestamp", PyNone),
                                   JointCount(packet).val) >>
                \o _log_workspace_state(stored.latest_upper_body, stored.latest_lower_body)]

\* an update that, taking a new snapshot, discards the packet held for the other source
update_lower_body_exclusive(ws, snapshot) ==
    LET stored == [ws EXCEPT !.latest_lower_body = AssignLower(@, snapshot),
                             !.frame_idx = NextFrameIdx(@),
                             !.latest_upper_body = PyNone]
    IN  [ws |-> stored,
         raised |-> "none",
         logged |->
            (IF LogDue(stored.frame_idx) THEN <<SnapshotDump(snapshot)>> ELSE <<>>)
            \o _log_workspace_state(stored.latest_upper_body, stored.latest_lower_body)]

\* FusionWorkspace.update_lower_body
update_lower_body(ws, snapshot) ==
    LET stored == [ws EXCEPT !.latest_lower_body = AssignLower(@, snapshot),
                             !.frame_idx = NextFrameIdx(@)]
    IN  [ws |-> stored,
         raised |-> "none",
         logged |->
            (IF LogDue(stored.frame_idx) THEN <<SnapshotDump(snapshot)>> ELSE <<>>)
            \o _log_workspace_state(stored.latest_upper_body, stored.latest_lower_body)]

----------------------------------------------------------------------------
(* PosePacketProtocol.datagram_received, with the workspace's              *)
(* handle_quest_packet as its handler (async_main of both servers).        *)

\* a handler that ignores everything but JSON objects
DispatchObjectsOnly(ws, payload, addr) ==
    IF payload.type = "dict"
    THEN [ws |-> handle_quest_packet(ws, payload, addr).ws,
          handler_calls |-> << [packet |-> payload, addr |-> addr] >>,
          raised |-> handle_quest_packet(ws, payload, addr).raised,
          logged |-> handle_quest_packet(ws, payload, addr).logged]
    ELSE [ws |-> ws, handler_calls |-> <<>>, raised |-> "none", logged |-> <<>>]

\* self._handler(payload, addr)
Dispatch(ws, payload, addr) ==
    LET r == handle_quest_packet(ws, payload, addr)
    IN  [ws |-> r.ws,
         handler_calls |-> << [packet |-> payload, addr |-> addr] >>,
         raised |-> r.raised,
         logged |-> r.logged]

\* an except clause that falls through to the handler with no payload
DroppedFallsThrough(ws, addr, exc) == Dispatch(ws, PyNone, addr)

\* except (UnicodeDecodeError, json.JSONDecodeError): logger.warning(...); return
Dropped(ws, addr, exc) ==
    [ws |-> ws,
     handler_calls |-> <<>>,
     raised |-> "none",
     logged |-> << [msg |-> "Failed to decode UDP packet", addr |-> addr, exc |-> exc] >>]

\* a receive path that shuts the transport when the handler raises
AfterCallbackFatal(state, exc) == IF exc # "none" THEN "closed" ELSE state

\* line 23 sits in no try: what the handler raises leaves datagram_received and ends
\* only this callback; the event loop reports it and the transport stays registered
AfterCallback(state, exc) == state

datagram_received(ws, data, addr) ==
    LET text == decode_utf8(data)
        payload == json_loads(text.text)
    IN  IF text.exc # "none" THEN Dropped(ws, addr, text.exc)
        ELSE IF payload.exc # "none" THEN Dropped(ws, addr, payload.exc)
        ELSE Dispatch(ws, payload.value, addr)

----------------------------------------------------------------------------
(* Threads.  "loop" is the event-loop thread, which runs datagram_received *)
(* and with it handle_quest_packet; "capture" is the thread that           *)
(* asyncio.to_thread gives run_capture_loop, which calls update_lower_body;*)
(* "capture2" is a second producer calling update_lower_body.              *)

Threads == {"loop", "capture", "capture2"}

\* a thread that is in no workspace call
NoLocal ==
    [fn |-> "none", arg |-> PyNone, idx |-> NoAttr, upper |-> PyNone, lower |-> PyNone,
     sync |-> <<>>]

----------------------------------------------------------------------------
(* The process on one event loop: every callback runs to completion.       *)

Workspace ==
    [latest_upper_body |-> latest_upper_body,
     latest_lower_body |-> latest_lower_body,
     frame_idx |-> _mp_frame_idx]

Install(ws) ==
    /\ latest_upper_body' = ws.latest_upper_body
    /\ latest_lower_body' = ws.latest_lower_body
    /\ _mp_frame_idx' = ws.frame_idx

\* workspace = FusionWorkspace(); the endpoint is bound and the camera loop started
Init ==
    /\ latest_upper_body = PyNone
    /\ latest_lower_body = PyNone
    /\ _mp_frame_idx = NoAttr
    /\ listener = "listening"
    /\ camera = "running"
    /\ op = "init"
    /\ arg = PyNone
    /\ handler_calls = <<>>
    /\ raised = "none"
    /\ logged = <<>>
    /\ calls = 0
    /\ last_packet = <<>>
    /\ last_snapshots = <<>>
    /\ prior_raised = FALSE
    /\ pc = [t \in Threads |-> "idle"]
    /\ local = [t \in Threads |-> NoLocal]
    /\ passed_upper = {}
    /\ passed_lower = {}
    /\ started = 0
    /\ port = "free"
    /\ ready = <<>>
    /\ osc_task = "L34"
    /\ inbox = <<>>
    /\ objects = <<>>
    /\ lower_ref = 0

\* the event loop hands one datagram to the protocol
Deliver(data, addr) ==
    LET r == datagram_received(Workspace, data, addr)
    IN  /\ listener = "listening"
        /\ listener' = AfterCallback(listener, r.raised)
        /\ Install(r.ws)
        /\ op' = "datagram_received"
        /\ arg' = [data |-> data, addr |-> addr]
        /\ handler_calls' = r.handler_calls
        /\ raised' = r.raised
        /\ logged' = r.logged
        /\ last_packet' = IF r.handler_calls = <<>>
                          THEN last_packet
                          ELSE <<r.handler_calls[Len(r.handler_calls)].packet>>
        /\ prior_raised' = (op = "datagram_received" /\ raised # "none")
        /\ UNCHANGED <<camera, calls, last_snapshots>>
        /\ UNCHANGED <<thread_vars, task_vars, object_vars>>

\* the camera loop publishes one snapshot
Publish(snapshot) ==
    LET r == update_lower_body(Workspace, snapshot)
    IN  /\ camera = "running"
        /\ Install(r.ws)
        /\ op' = "update_lower_body"
        /\ arg' = snapshot
        /\ handler_calls' = <<>>
        /\ raised' = r.raised
        /\ logged' = r.logged
        /\ calls' = calls + 1
        /\ last_snapshots' = IF last_snapshots = <<>>
                             THEN <<snapshot>>
                             ELSE <<last_snapshots[Len(last_snapshots)], snapshot>>
        /\ prior_raised' = FALSE
        /\ UNCHANGED <<listener, camera, last_packet>>
        /\ UNCHANGED <<thread_vars, task_vars, object_vars>>

DatagramReceived == \E data \in Datagrams, addr \in Addrs : Deliver(data, addr)

CameraFrame == calls < MaxCalls /\ \E snapshot \in Snapshots : Publish(snapshot)

\* the camera loop ends (ESC pressed, or the capture gives out)
CameraStop ==
    /\ camera = "running"
    /\ camera' = "stopped"
    /\ op' = "camera_stop"
    /\ arg' = PyNone
    /\ handler_calls' = <<>>
    /\ raised' = "none"
    /\ logged' = <<>>
    /\ prior_raised' = FALSE
    /\ UNCHANGED <<latest_upper_body, latest_lower_body, _mp_frame_idx, listener, calls,
                   last_packet, last_snapshots>>
    /\ UNCHANGED <<thread_vars, task_vars, object_vars>>

\* async_main's finally cancels the listener task, whose finally closes the transport
Close ==
    /\ camera = "stopped"
    /\ listener = "listening"
    /\ listener' = "closed"
    /\ op' = "close"
    /\ arg' = PyNone
    /\ handler_calls' = <<>>
    /\ raised' = "none"
    /\ logged' = <<>>
    /\ prior_raised' = FALSE
    /\ UNCHANGED <<latest_upper_body, latest_lower_body, _mp_frame_idx, camera, calls,
                   last_packet, last_snapshots>>
    /\ UNCHANGED <<thread_vars, task_vars, object_vars>>

Next == DatagramReceived \/ CameraFrame \/ CameraStop \/ Close

Spec == Init /\ [][Next]_vars

\* The camera producer as the only caller of update_lower_body, for two log periods.
FrameDatagrams ==
    {InvalidUtf8, Utf8(Document(JObject([k \in {"timestamp"} |-> JNumber(1000)])))}

QuestDatagram == \E data \in FrameDatagrams, addr \in Addrs : Deliver(data, addr)

SingleCameraFrame == calls < MaxFrames /\ \E snapshot \in Snapshots : Publish(snapshot)

FramesNext == QuestDatagram \/ SingleCameraFrame

SpecFrames == Init /\ [][FramesNext]_vars

----------------------------------------------------------------------------
(* One cycle of a camera pipeline (mediapipe_loop lines 69-96, process_frame): the   *)
(* pose estimator's result becomes a PoseSnapshot object, which is published.  The   *)
(* objects are kept by identity: the one the workspace refers to and the one it      *)
(* referred to before.                                                               *)

\* a landmark the estimator scored 0, and one keyed as the data model of the design names it
NoseUnseen == [nose |-> [x |-> 100, y |-> 200, z |-> 300, visibility |-> 0]]
NoseConfidence == [nose |-> [x |-> 100, y |-> 200, z |-> 300, confidence |-> 90]]

\* what the pose estimator returns for a frame: no pose, or the landmarks it found
NoPose == [pose |-> FALSE]
Pose(landmarks) == [pose |-> TRUE, landmarks |-> landmarks]
Results == {NoPose} \cup {Pose(l) : l \in {NoLandmarks, NoseUnseen, NoseConfidence}}

\* readings of time.time()
Clock == {0, 1025}

\* the identity a newly constructed object gets
FreshId(objs) == IF DOMAIN objs = {} THEN 1 ELSE (CHOOSE i \in DOMAIN objs : \A j \in DOMAIN objs : j <= i) + 1

\* a producer that keeps one snapshot object and overwrites its fields every cycle
ConstructInPlace(objs, ref, now, landmarks) ==
    IF ref \in DOMAIN objs
    THEN [id |-> ref, objs |-> [objs EXCEPT ![ref] = PoseSnapshot(now, landmarks)]]
    ELSE [id |-> FreshId(objs),
          objs |-> objs @@ (FreshId(objs) :> PoseSnapshot(now, landmarks))]

\* PoseSnapshot(timestamp=time.time(), landmarks=...): a new object every cycle
Construct(objs, ref, now, landmarks) ==
    [id |-> FreshId(objs),
     objs |-> objs @@ (FreshId(objs) :> PoseSnapshot(now, landmarks))]

\* extract_pose_data(results): None without a pose, else the identity of a new snapshot
extract_pose_data(objs, ref, results, now) ==
    IF ~results.pose
    THEN [id |-> 0, objs |-> objs]
    ELSE Construct(objs, ref, now, results.landmarks)

\* the objects still referred to: the stored one and the one it replaced
Retain(objs, ref, old) == [i \in DOMAIN objs \cap {ref, old} |-> objs[i]]

\* one iteration of the camera loop on a frame that was read
Cycle ==
    /\ camera = "running"
    /\ calls < MaxCycles
    /\ \E results \in Results, now \in Clock :
        LET made == extract_pose_data(objects, lower_ref, results, now)
        IN  IF made.id = 0
            THEN /\ op' = "no_pose"
                 /\ arg' = PyNone
                 /\ handler_calls' = <<>>
                 /\ raised' = "none"
                 /\ logged' = <<>>
                 /\ UNCHANGED <<latest_upper_body, latest_lower_body, _mp_frame_idx, calls,
                                object_vars>>
            ELSE LET r == update_lower_body(Workspace, made.objs[made.id])
                 IN  /\ Install(r.ws)
                     /\ op' = "update_lower_body"
                     /\ arg' = made.objs[made.id]
                     /\ handler_calls' = <<>>
                     /\ raised' = r.raised
                     /\ logged' = r.logged
                     /\ calls' = calls + 1
                     /\ lower_ref' = made.id
                     /\ objects' = Retain(made.objs, made.id, lower_ref)
    /\ prior_raised' = FALSE
    /\ UNCHANGED <<listener, camera, last_packet, last_snapshots>>
    /\ UNCHANGED <<thread_vars, task_vars>>

CycleNext == QuestDatagram \/ Cycle

SpecCycle == Init /\ [][CycleNext]_vars

----------------------------------------------------------------------------
(* The process with threads (synthpose_mmpose_server.async_main): the      *)
(* workspace methods run statement by statement and the threads interleave *)
(* between any two attribute accesses; nothing locks the workspace.        *)

ThreadDatagrams ==
    {InvalidUtf8,
     Utf8(Document(JNull)),
     Utf8(Document(JObject([timestamp |-> JNumber(1000), joints |-> JArray(2)]))),
     Utf8(Document(JObject([k \in {"timestamp"} |-> JNumber(950)])))}

ThreadSnapshots == {PoseSnapshot(975, NoLandmarks), PoseSnapshot(1025, Nose)}

\* thread t moves to the statement at label with its locals loc
Jump(t, label, loc) ==
    /\ pc' = [pc EXCEPT ![t] = label]
    /\ local' = [local EXCEPT ![t] = loc]

\* the call of thread t returns
Finish(t) ==
    /\ pc' = [pc EXCEPT ![t] = "idle"]
    /\ local' = [local EXCEPT ![t] = NoLocal]
    /\ calls' = IF local[t].fn = "update_lower_body" THEN calls + 1 ELSE calls

\* an exception leaves the call of thread t
Raise(t) ==
    /\ pc' = [pc EXCEPT ![t] = "idle"]
    /\ local' = [local EXCEPT ![t] = NoLocal]
    /\ UNCHANGED calls

\* datagram_received on the event-loop thread, up to the handler's first statement
LoopReceive ==
    \E data \in ThreadDatagrams :
        LET text == decode_utf8(data)
            payload == json_loads(text.text)
        IN  /\ pc["loop"] = "idle"
            /\ started < MaxStarted
            /\ IF text.exc # "none" \/ payload.exc # "none"
               THEN UNCHANGED <<pc, local, passed_upper, started>>
               ELSE /\ Jump("loop", "L29",
                            [NoLocal EXCEPT !.fn = "handle_quest_packet",
                                            !.arg = payload.value])
                    /\ passed_upper' = passed_upper \cup {payload.value}
                    /\ started' = started + 1
            /\ UNCHANGED <<latest_upper_body, latest_lower_body, _mp_frame_idx, calls,
                           passed_lower>>
            /\ UNCHANGED <<loop_vars, task_vars, object_vars>>

\* line 29: self.latest_upper_body = packet
Q29(t) ==
    /\ pc[t] = "L29"
    /\ latest_upper_body' = AssignUpper(latest_upper_body, local[t].arg)
    /\ Jump(t, "L30", local[t])
    /\ UNCHANGED <<latest_lower_body, _mp_frame_idx, calls, passed_upper, passed_lower,
                   started>>
    /\ UNCHANGED <<loop_vars, task_vars, object_vars>>

\* line 30: timestamp = packet.get("timestamp")
Q30(t) ==
    /\ pc[t] = "L30"
    /\ IF local[t].arg.type # "dict"
       THEN Raise(t)
       ELSE Jump(t, "L31", local[t]) /\ UNCHANGED calls
    /\ UNCHANGED <<latest_upper_body, latest_lower_body, _mp_frame_idx, passed_upper,
                   passed_lower, started>>
    /\ UNCHANGED <<loop_vars, task_vars, object_vars>>

\* lines 31-35: joint_count = len(...); logger.info(...); self._log_workspace_state()
Q31(t) ==
    /\ pc[t] = "L31"
    /\ IF JointCount(local[t].arg).exc # "none"
       THEN Raise(t)
       ELSE Jump(t, "L80_upper", local[t]) /\ UNCHANGED calls
    /\ UNCHANGED <<latest_upper_body, latest_lower_body, _mp_frame_idx, passed_upper,
                   passed_lower, started>>
    /\ UNCHANGED <<loop_vars, task_vars, object_vars>>

\* a producer thread calls workspace.update_lower_body(snapshot)
CaptureCall(t) ==
    \E snapshot \in ThreadSnapshots :
        /\ pc[t] = "idle"
        /\ started < MaxStarted
        /\ Jump(t, "L39", [NoLocal EXCEPT !.fn = "update_lower_body", !.arg = snapshot])
        /\ passed_lower' = passed_lower \cup {snapshot}
        /\ started' = started + 1
        /\ UNCHANGED <<latest_upper_body, latest_lower_body, _mp_frame_idx, calls,
                       passed_upper>>
        /\ UNCHANGED <<loop_vars, task_vars, object_vars>>

\* line 39: self.latest_lower_body = snapshot
U39(t) ==
    /\ pc[t] = "L39"
    /\ latest_lower_body' = AssignLower(latest_lower_body, local[t].arg)
    /\ Jump(t, "L43", local[t])
    /\ UNCHANGED <<latest_upper_body, _mp_frame_idx, calls, passed_upper, passed_lower,
                   started>>
    /\ UNCHANGED <<loop_vars, task_vars, object_vars>>

\* line 43: if hasattr(self, "_mp_frame_idx")
U43(t) ==
    /\ pc[t] = "L43"
    /\ Jump(t, IF _mp_frame_idx # NoAttr THEN "L44_load" ELSE "L46", local[t])
    /\ UNCHANGED <<latest_upper_body, latest_lower_body, _mp_frame_idx, calls,
                   passed_upper, passed_lower, started>>
    /\ UNCHANGED <<loop_vars, task_vars, object_vars>>

\* line 44: self._mp_frame_idx += 1, the load of the attribute
U44Load(t) ==
    /\ pc[t] = "L44_load"
    /\ Jump(t, "L44_store", [local[t] EXCEPT !.idx = _mp_frame_idx])
    /\ UNCHANGED <<latest_upper_body, latest_lower_body, _mp_frame_idx, calls,
                   passed_upper, passed_lower, started>>
    /\ UNCHANGED <<loop_vars, task_vars, object_vars>>

\* line 44: self._mp_frame_idx += 1, the store of the sum
U44Store(t) ==
    /\ pc[t] = "L44_store"
    /\ _mp_frame_idx' = NextFrameIdx(local[t].idx)
    /\ Jump(t, "L48", local[t])
    /\ UNCHANGED <<latest_upper_body, latest_lower_body, calls, passed_upper,
                   passed_lower, started>>
    /\ UNCHANGED <<loop_vars, task_vars, object_vars>>

\* line 46: self._mp_frame_idx = 1
U46(t) ==
    /\ pc[t] = "L46"
    /\ _mp_frame_idx' = NextFrameIdx(NoAttr)
    /\ Jump(t, "L48", local[t])
    /\ UNCHANGED <<latest_upper_body, latest_lower_body, calls, passed_upper,
                   passed_lower, started>>
    /\ UNCHANGED <<loop_vars, task_vars, object_vars>>

\* lines 48-75: the throttled dump (it writes no attribute), then self._log_workspace_state()
U48(t) ==
    /\ pc[t] = "L48"
    /\ Jump(t, "L80_upper", local[t])
    /\ UNCHANGED <<latest_upper_body, latest_lower_body, _mp_frame_idx, calls,
                   passed_upper, passed_lower, started>>
    /\ UNCHANGED <<loop_vars, task_vars, object_vars>>

\* line 80: if not self.latest_upper_body ...: return
W80Upper(t) ==
    /\ pc[t] = "L80_upper"
    /\ IF Truthy(latest_upper_body)
       THEN Jump(t, "L80_lower", [local[t] EXCEPT !.upper = latest_upper_body])
            /\ UNCHANGED calls
       ELSE Finish(t)
    /\ UNCHANGED <<latest_upper_body, latest_lower_body, _mp_frame_idx, passed_upper,
                   passed_lower, started>>
    /\ UNCHANGED <<loop_vars, task_vars, object_vars>>

\* line 80: ... or not self.latest_lower_body: return
W80Lower(t) ==
    /\ pc[t] = "L80_lower"
    /\ IF Truthy(latest_lower_body)
       THEN Jump(t, "L84", [local[t] EXCEPT !.lower = latest_lower_body])
            /\ UNCHANGED calls
       ELSE Finish(t)
    /\ UNCHANGED <<latest_upper_body, latest_lower_body, _mp_frame_idx, passed_upper,
                   passed_lower, started>>
    /\ UNCHANGED <<loop_vars, task_vars, object_vars>>

\* lines 83-86: quest_ts = float(self.latest_upper_body.get("timestamp", 0.0)), guarded
W84(t) ==
    /\ pc[t] = "L84"
    /\ Jump(t, "L87", [local[t] EXCEPT !.upper = latest_upper_body])
    /\ UNCHANGED <<latest_upper_body, latest_lower_body, _mp_frame_idx, calls,
                   passed_upper, passed_lower, started>>
    /\ UNCHANGED <<loop_vars, task_vars, object_vars>>

\* lines 87-88: pose_estimation_by_camera_ts = self.latest_lower_body.timestamp; delta = ...
W87(t) ==
    /\ pc[t] = "L87"
    /\ IF latest_lower_body.type # "PoseSnapshot"
       THEN Raise(t)
       ELSE /\ Jump(t, "L90",
                    [local[t] EXCEPT
                        !.lower = latest_lower_body,
                        !.sync = << [msg |-> "Fusion workspace ready",
                                     quest_ts |-> QuestTs(local[t].upper),
                                     camera_ts |-> latest_lower_body.timestamp,
                                     delta |-> Delta(latest_lower_body.timestamp,
                                                     QuestTs(local[t].upper))] >>])
            /\ UNCHANGED calls
    /\ UNCHANGED <<latest_upper_body, latest_lower_body, _mp_frame_idx, passed_upper,
                   passed_lower, started>>
    /\ UNCHANGED <<loop_vars, task_vars, object_vars>>

\* lines 90-95: logger.info(...), and the call returns
W90(t) ==
    /\ pc[t] = "L90"
    /\ Finish(t)
    /\ UNCHANGED <<latest_upper_body, latest_lower_body, _mp_frame_idx, passed_upper,
                   passed_lower, started>>
    /\ UNCHANGED <<loop_vars, task_vars, object_vars>>

\* a statement of handle_quest_packet
QuestStep(t) == Q29(t) \/ Q30(t) \/ Q31(t)

\* a statement of update_lower_body
LowerStep(t) ==
    CaptureCall(t) \/ U39(t) \/ U43(t) \/ U44Load(t) \/ U44Store(t) \/ U46(t) \/ U48(t)

\* a statement of _log_workspace_state
StateLogStep(t) == W80Upper(t) \/ W80Lower(t) \/ W84(t) \/ W87(t) \/ W90(t)

ThreadsNext ==
    \/ LoopReceive
    \/ QuestStep("loop")
    \/ \E t \in {"capture", "capture2"} : LowerStep(t)
    \/ \E t \in Threads : StateLogStep(t)

SpecThreads == Init /\ [][ThreadsNext]_vars

----------------------------------------------------------------------------
(* The MediaPipe process at the level of its event loop                     *)
(* (mediapipe_stream_server.async_main): the task of async_main, which runs *)
(* mediapipe_loop inline, the task of run_server, and the transport's       *)
(* callbacks, all run by one loop from its queue of ready callbacks.  A     *)
(* callback or task step runs until it returns or reaches an await; the     *)
(* workspace calls inside it run statement by statement.  `camera` is the   *)
(* line async_main / mediapipe_loop is at, `listener` the transport, and    *)
(* the call frames of thread "capture" are those of the camera task.        *)

\* a workspace method that awaits after its first assignment
SuspendsInUpdate(label) ==
    label \in {"L72", "L96", "L123_wait", "L123_wait_err", "returned", "raised",
               "raised_OSError", "L43"}

\* the lines at which the task of async_main is suspended or has ended: the awaits of
\* lines 72, 96 and 123, and the end of the coroutine
Suspends(label) ==
    label \in {"L72", "L96", "L123_wait", "L123_wait_err", "returned", "raised",
               "raised_OSError"}

\* the task of async_main is not executing
MainSuspended == Suspends(IF pc["capture"] # "idle" THEN pc["capture"] ELSE camera)

\* no callback and no task step is executing: the loop is between two callbacks
Idle == pc["loop"] = "idle" /\ MainSuspended

\* the selector reports the socket readable and its reader is not queued yet
PollDue == listener = "listening" /\ inbox # <<>> /\ \A i \in DOMAIN ready : ready[i] # "reader"

\* the loop is about to run the callback at the head of its queue (it polls first)
Runs(handle) == Idle /\ ~PollDue /\ ready # <<>> /\ Head(ready) = handle

Queued(handle) == \E i \in DOMAIN ready : ready[i] = handle

\* the task of run_server is done: its done-callback wakes async_main if it awaits it
WakeMain(queue) ==
    IF camera \in {"L123_wait", "L123_wait_err"} THEN Append(queue, "main") ELSE queue

\* the frames of the workspace calls and the bookkeeping of the other specifications
NoCall ==
    UNCHANGED <<latest_upper_body, latest_lower_body, _mp_frame_idx, calls, arg,
                handler_calls, raised, logged, last_packet, last_snapshots, prior_raised,
                thread_vars, object_vars>>

\* an endpoint that is left bound and registered although the bind raised
BindHalfOpen(p) ==
    [listener |-> "bound", osc_task |-> IF p = "free" THEN "L28" ELSE "failed",
     scheduled |-> <<"conn_made">>]

\* lines 28-30: create_datagram_endpoint binds the socket, builds the protocol and the
\* transport and waits for the connection to be made; an unavailable port raises OSError
\* before there is a protocol or a transport
Bind(p) ==
    IF p = "free"
    THEN [listener |-> "bound", osc_task |-> "L28", scheduled |-> <<"conn_made">>]
    ELSE [listener |-> "none", osc_task |-> "failed", scheduled |-> <<>>]

\* a run_server without the finally of lines 35-36
LeaveTransport(state) == state

\* lines 35-36: finally: transport.close() (asyncio closes it likewise when the wait
\* inside create_datagram_endpoint is cancelled)
CloseTransport(state) == IF state \in {"bound", "listening"} THEN "closing" ELSE state

\* a datagram reaches the bound socket
Arrive ==
    /\ listener \in {"bound", "listening"}
    /\ Len(inbox) < MaxInbox
    /\ \E data \in FrameDatagrams : inbox' = Append(inbox, data)
    /\ UNCHANGED <<port, ready, osc_task, listener, camera>>
    /\ op' = "arrive"
    /\ NoCall

\* the loop polls the selector and queues the transport's reader
Poll ==
    /\ Idle
    /\ PollDue
    /\ ready' = Append(ready, "reader")
    /\ UNCHANGED <<port, osc_task, inbox, listener, camera>>
    /\ op' = "poll"
    /\ NoCall

\* the timer of asyncio.sleep(0.1) expires
TimerFires ==
    /\ Idle
    /\ camera = "L72"
    /\ ~Queued("main")
    /\ ready' = Append(ready, "main")
    /\ UNCHANGED <<port, osc_task, inbox, listener, camera>>
    /\ op' = "timer"
    /\ NoCall

\* a step of the run_server task
RunOsc ==
    /\ Runs("osc")
    /\ \/ /\ osc_task = "pending"
          /\ listener' = Bind(port).listener
          /\ osc_task' = Bind(port).osc_task
          /\ ready' = IF Bind(port).osc_task = "failed"
                      THEN WakeMain(Tail(ready) \o Bind(port).scheduled)
                      ELSE Tail(ready) \o Bind(port).scheduled
       \/ /\ osc_task = "pending_cancel"
          /\ osc_task' = "cancelled"
          /\ ready' = WakeMain(Tail(ready))
          /\ UNCHANGED listener
       \/ /\ osc_task = "L28"
          /\ osc_task' = "L34"
          /\ ready' = Tail(ready)
          /\ UNCHANGED listener
       \/ /\ osc_task \in {"L28_cancel", "L34_cancel"}
          /\ listener' = CloseTransport(listener)
          /\ osc_task' = "cancelled"
          /\ ready' = WakeMain(IF CloseTransport(listener) = "closing"
                               THEN Append(Tail(ready), "conn_lost")
                               ELSE Tail(ready))
    /\ UNCHANGED <<port, inbox, camera>>
    /\ op' = "run_server"
    /\ NoCall

\* the transport's start: connection_made, the reader is registered, the waiter is set
RunConnMade ==
    /\ Runs("conn_made")
    /\ listener' = IF listener = "bound" THEN "listening" ELSE listener
    /\ ready' = IF osc_task = "L28" THEN Append(Tail(ready), "osc") ELSE Tail(ready)
    /\ UNCHANGED <<port, osc_task, inbox, camera>>
    /\ op' = "connection_made"
    /\ NoCall

\* the transport's end: connection_lost, the socket is closed
RunConnLost ==
    /\ Runs("conn_lost")
    /\ listener' = "closed"
    /\ ready' = Tail(ready)
    /\ UNCHANGED <<port, osc_task, inbox, camera>>
    /\ op' = "connection_lost"
    /\ NoCall

\* the transport's reader: one datagram is read and given to datagram_received, which
\* drops it or calls the handler (up to the handler's first statement)
RunReader ==
    /\ Runs("reader")
    /\ ready' = Tail(ready)
    /\ IF listener # "listening" \/ inbox = <<>>
       THEN op' = "reader_skipped" /\ UNCHANGED <<inbox, pc, local, passed_upper>>
       ELSE LET text == decode_utf8(Head(inbox))
                payload == json_loads(text.text)
            IN  /\ inbox' = Tail(inbox)
                /\ op' = "datagram_received"
                /\ IF text.exc # "none" \/ payload.exc # "none"
                   THEN UNCHANGED <<pc, local, passed_upper>>
                   ELSE /\ Jump("loop", "L29",
                                [NoLocal EXCEPT !.fn = "handle_quest_packet",
                                                !.arg = payload.value])
                        /\ passed_upper' = passed_upper \cup {payload.value}
    /\ UNCHANGED <<port, osc_task, listener, camera>>
    /\ UNCHANGED <<latest_upper_body, latest_lower_body, _mp_frame_idx, calls, arg,
                   handler_calls, raised, logged, last_packet, last_snapshots,
                   prior_raised, passed_lower, started, object_vars>>

\* the loop resumes the task of async_main after its await
RunMain ==
    /\ Runs("main")
    /\ ready' = Tail(ready)
    /\ camera' = CASE camera \in {"L72", "L96"} -> "L69"
                   [] camera = "L123_wait" -> "L123"
                   [] camera = "L123_wait_err" -> "L123_err"
                   [] OTHER -> camera
    /\ op' = "resume"
    /\ UNCHANGED <<port, osc_task, inbox, listener>>
    /\ NoCall

\* lines 62-65: cv2.VideoCapture; without a camera mediapipe_loop returns at once
OpenCamera ==
    /\ camera = "L62"
    /\ \E opened \in BOOLEAN : camera' = IF opened THEN "L69" ELSE "L121"
    /\ op' = "open_camera"
    /\ UNCHANGED <<port, ready, osc_task, inbox, listener>>
    /\ NoCall

\* lines 69-73: cap.read(); an empty frame leads to await asyncio.sleep(0.1)
ReadFrame ==
    /\ camera = "L69"
    /\ \E success \in BOOLEAN : camera' = IF success THEN "L77" ELSE "L72"
    /\ op' = "read_frame"
    /\ UNCHANGED <<port, ready, osc_task, inbox, listener>>
    /\ NoCall

\* lines 75-80: pose.process and extract_pose_data find a pose or none, or raise
ProcessFrame ==
    /\ camera = "L77"
    /\ \/ camera' = "L92"
       \/ calls < MaxCalls /\ camera' = "L81"
       \/ camera' = "L121_err"
    /\ op' = "process_frame"
    /\ UNCHANGED <<port, ready, osc_task, inbox, listener>>
    /\ NoCall

\* line 81: workspace.update_lower_body(snapshot), up to its first statement
CameraPublish ==
    /\ camera = "L81"
    /\ camera' = "L81_call"
    /\ \E snapshot \in ThreadSnapshots :
        /\ Jump("capture", "L39",
                [NoLocal EXCEPT !.fn = "update_lower_body", !.arg = snapshot])
        /\ passed_lower' = passed_lower \cup {snapshot}
    /\ op' = "update_lower_body"
    /\ UNCHANGED <<port, ready, osc_task, inbox, listener>>
    /\ UNCHANGED <<latest_upper_body, latest_lower_body, _mp_frame_idx, calls, arg,
                   handler_calls, raised, logged, last_packet, last_snapshots,
                   prior_raised, passed_upper, started, object_vars>>

\* update_lower_body has returned: lines 83-91 draw the frame
CameraReturn ==
    /\ camera = "L81_call"
    /\ pc["capture"] = "idle"
    /\ camera' = "L92"
    /\ op' = "draw"
    /\ UNCHANGED <<port, ready, osc_task, inbox, listener>>
    /\ NoCall

\* a loop body that goes back to cap.read() without awaiting
AfterFrameNoYield(key) == IF key = "esc" THEN "L121" ELSE "L69"

\* lines 92-96: ESC breaks out of the loop, anything else reaches await asyncio.sleep(0)
AfterFrame(key) == IF key = "esc" THEN "L121" ELSE "L96"

WaitKey ==
    /\ camera = "L92"
    /\ \E key \in {"esc", "none"} :
        /\ camera' = AfterFrame(key)
        /\ ready' = IF AfterFrame(key) = "L96" THEN Append(ready, "main") ELSE ready
    /\ op' = "wait_key"
    /\ UNCHANGED <<port, osc_task, inbox, listener>>
    /\ NoCall

\* line 121: osc_task.cancel()
CancelListener ==
    /\ camera \in {"L121", "L121_err"}
    /\ camera' = IF camera = "L121" THEN "L123" ELSE "L123_err"
    /\ osc_task' = CASE osc_task = "pending" -> "pending_cancel"
                     [] osc_task = "L28" -> "L28_cancel"
                     [] osc_task = "L34" -> "L34_cancel"
                     [] OTHER -> osc_task
    /\ ready' = IF osc_task \in {"L28", "L34"} /\ ~Queued("osc")
                THEN Append(ready, "osc")
                ELSE ready
    /\ op' = "cancel"
    /\ UNCHANGED <<port, inbox, listener>>
    /\ NoCall

\* lines 122-123: with contextlib.suppress(asyncio.CancelledError): await osc_task
AwaitListener ==
    /\ camera \in {"L123", "L123_err"}
    /\ camera' = CASE osc_task = "failed" -> "raised_OSError"
                   [] osc_task = "cancelled" ->
                        IF camera = "L123" THEN "returned" ELSE "raised"
                   [] OTHER -> IF camera = "L123" THEN "L123_wait" ELSE "L123_wait_err"
    /\ op' = "await_listener"
    /\ UNCHANGED <<port, ready, osc_task, inbox, listener>>
    /\ NoCall

\* a statement of update_lower_body after the call
UpdateStep(t) == U39(t) \/ U43(t) \/ U44Load(t) \/ U44Store(t) \/ U46(t) \/ U48(t)

\* async_main has created the workspace and the run_server task and enters mediapipe_loop
InitLoop ==
    /\ latest_upper_body = PyNone
    /\ latest_lower_body = PyNone
    /\ _mp_frame_idx = NoAttr
    /\ listener = "none"
    /\ camera = "L62"
    /\ op = "init"
    /\ arg = PyNone
    /\ handler_calls = <<>>
    /\ raised = "none"
    /\ logged = <<>>
    /\ calls = 0
    /\ last_packet = <<>>
    /\ last_snapshots = <<>>
    /\ prior_raised = FALSE
    /\ pc = [t \in Threads |-> "idle"]
    /\ local = [t \in Threads |-> NoLocal]
    /\ passed_upper = {}
    /\ passed_lower = {}
    /\ started = 0
    /\ port \in {"free", "in_use"}
    /\ ready = <<"osc">>
    /\ osc_task = "pending"
    /\ inbox = <<>>
    /\ objects = <<>>
    /\ lower_ref = 0

\* what the process does by itself (everything but the arrival of datagrams)
Progress ==
    \/ Poll \/ TimerFires \/ RunOsc \/ RunConnMade \/ RunConnLost \/ RunReader \/ RunMain
    \/ OpenCamera \/ ReadFrame \/ ProcessFrame \/ CameraPublish \/ CameraReturn
    \/ WaitKey \/ CancelListener \/ AwaitListener
    \/ QuestStep("loop") \/ UpdateStep("capture")
    \/ StateLogStep("loop") \/ StateLogStep("capture")

LoopNext == Arrive \/ Progress

SpecLoop == InitLoop /\ [][LoopNext]_vars

\* the loop and the interpreter keep running what is ready to run
SpecLoopFair == SpecLoop /\ WF_vars(Progress)

----------------------------------------------------------------------------
(* Properties. *)

\* the bytes are not UTF-8, or the text is no JSON document
Undecodable(data) ==
    \/ data.encoding # "utf-8"
    \/ data.text.syntax # "json"

\* the value of the JSON document a decodable datagram carries
Parsed(data) == json_value(data.text.doc)

WorkspaceFields == <<latest_upper_body, latest_lower_body, _mp_frame_idx>>

\* the operation that ran last was an update of the workspace
UpperUpdated == op = "datagram_received" /\ handler_calls # <<>>
LowerUpdated == op = "update_lower_body"

\* the synchronization observations the last operation emitted
SyncObservations ==
    {logged[i] : i \in {j \in DOMAIN logged : logged[j].msg = "Fusion workspace ready"}}

\* the throttled diagnostics the last operation emitted
Diagnostics ==
    {logged[i] : i \in {j \in DOMAIN logged :
        logged[j].msg \in {"Pose snapshot from camera",
                           "Pose snapshot from camera (no landmarks visible)"}}}

\* C1: a datagram that is not valid UTF-8 or not valid JSON invokes no handler,
\* leaves latest_upper_body, latest_lower_body and the frame counter as they were
\* and leaves the listener listening; a well-formed datagram that follows it is
\* dispatched to the handler.
C1_MalformedDatagramDropped ==
    [][ /\ (op' = "datagram_received" /\ Undecodable(arg'.data)) =>
              /\ handler_calls' = <<>>
              /\ WorkspaceFields' = WorkspaceFields
              /\ listener = "listening" /\ listener' = "listening"
        /\ (/\ op = "datagram_received" /\ Undecodable(arg.data)
            /\ op' = "datagram_received" /\ ~Undecodable(arg'.data)) =>
              /\ Len(handler_calls') = 1
              /\ handler_calls'[1].packet = Parsed(arg'.data) ]_vars

\* C1 witness: a malformed datagram was dropped with both fields and the counter set
C1_Witness ==
    /\ op = "datagram_received" /\ Undecodable(arg.data)
    /\ handler_calls = <<>>
    /\ latest_upper_body # PyNone /\ latest_lower_body # PyNone /\ _mp_frame_idx # NoAttr
    /\ listener = "listening"

\* C2: a datagram that is valid UTF-8 and valid JSON (any JSON value) invokes the
\* handler exactly once, inside datagram_received, with the parsed payload and the
\* sender address, and after the invocation latest_upper_body is that payload.
C2_ValidDatagramDispatched ==
    (op = "datagram_received" /\ ~Undecodable(arg.data)) =>
        /\ handler_calls = << [packet |-> Parsed(arg.data), addr |-> arg.addr] >>
        /\ latest_upper_body = Parsed(arg.data)

\* C2 witness: a JSON array was dispatched and is the upper body, though the handler raised
C2_Witness ==
    /\ op = "datagram_received" /\ ~Undecodable(arg.data)
    /\ Parsed(arg.data) = PyList(2)
    /\ Len(handler_calls) = 1
    /\ latest_upper_body = PyList(2)
    /\ raised = "AttributeError"

\* C3 (as claimed): handle_quest_packet never raises for a decoded packet (a JSON
\* object) whose timestamp, hmd or joints is absent, null or of an unexpected type.
C3_NeverRaisesOnFields ==
    (UpperUpdated /\ handler_calls[1].packet.type = "dict") => raised = "none"

\* C6 (as claimed): after an update that completes, if both fields hold a value
\* (any accepted packet, a JSON object with no fields included, and any snapshot),
\* that update emitted a synchronization observation.
C6_SyncEmittedWhenBothHold ==
    (/\ UpperUpdated \/ LowerUpdated
     /\ raised = "none"
     /\ latest_upper_body.type = "dict"
     /\ latest_lower_body.type = "PoseSnapshot") => SyncObservations # {}

\* C7: if either field is absent when an update finishes, that update computes and
\* emits no synchronization delta.
C7_NoDeltaWhenAbsent ==
    (/\ UpperUpdated \/ LowerUpdated
     /\ latest_upper_body = PyNone \/ latest_lower_body = PyNone) => SyncObservations = {}

\* C7 witness: a snapshot was published before any packet arrived, and nothing was logged
C7_Witness ==
    /\ LowerUpdated
    /\ latest_upper_body = PyNone
    /\ latest_lower_body.type = "PoseSnapshot"
    /\ raised = "none"
    /\ logged = <<>>

\* the upper-body timestamp as the claim reads it: the timestamp field when it is a
\* number, 0.0 when it is absent or not a number
ClaimedUpperTs(upper) ==
    IF /\ upper.type = "dict"
       /\ "timestamp" \in DOMAIN upper.items
       /\ upper.items["timestamp"].type = "number"
    THEN upper.items["timestamp"].val
    ELSE 0

\* the upper-body timestamp as amended: what float() makes of the timestamp field
\* (a number itself, true as 1.0 and false as 0.0, a numeric string as its value),
\* 0.0 when the field is absent or float() rejects it
CoercedUpperTs(upper) ==
    IF upper.type = "dict" /\ "timestamp" \in DOMAIN upper.items
    THEN LET t == upper.items["timestamp"]
         IN  CASE t.type = "number" -> t.val
               [] t.type = "bool" -> IF t.flag THEN 100 ELSE 0
               [] t.type = "str" /\ t.text = "10.5" -> 1050
               [] OTHER -> 0
    ELSE 0

\* C8 (as claimed): every synchronization observation reports
\* delta = latest_lower_body.timestamp - upper timestamp, the upper timestamp being
\* the packet's timestamp field when it is a number and 0.0 otherwise.
C8_DeltaAsClaimed ==
    \A o \in SyncObservations :
        o.delta = latest_lower_body.timestamp - ClaimedUpperTs(latest_upper_body)

\* C8 (amended): every synchronization observation reports
\* delta = latest_lower_body.timestamp - upper timestamp, the upper timestamp being
\* float(timestamp field) when float() accepts it (a number, a boolean, a numeric
\* string) and 0.0 when the field is absent or float() rejects it.
C8_DeltaOfCoercedTimestamp ==
    \A o \in SyncObservations :
        /\ o.quest_ts = CoercedUpperTs(latest_upper_body)
        /\ o.camera_ts = latest_lower_body.timestamp
        /\ o.delta = latest_lower_body.timestamp - CoercedUpperTs(latest_upper_body)

\* C8 witness: upper timestamp 10.0, then a snapshot at 10.25: delta 0.25
C8_Witness ==
    /\ LowerUpdated
    /\ latest_upper_body = PyDict([k \in {"timestamp"} |-> PyNum(1000)])
    /\ arg.timestamp = 1025
    /\ SyncObservations = {[msg |-> "Fusion workspace ready",
                            quest_ts |-> 1000, camera_ts |-> 1025, delta |-> 25]}

\* C9: last write wins by arrival: latest_upper_body is the argument of the most
\* recent handle_quest_packet call and latest_lower_body the argument of the most
\* recent update_lower_body call, whatever the timestamps they carry.
C9_LastWriteWins ==
    /\ last_packet # <<>> => latest_upper_body = last_packet[1]
    /\ last_snapshots # <<>> => latest_lower_body = last_snapshots[Len(last_snapshots)]

\* C9 witness: a snapshot stamped 9.75 replaced one stamped 10.25
C9_Witness ==
    /\ LowerUpdated
    /\ Len(last_snapshots) = 2
    /\ last_snapshots[1].timestamp = 1025
    /\ last_snapshots[2].timestamp = 975
    /\ latest_lower_body = last_snapshots[2]

\* the counter, read as the number of frames counted
FramesCounted == IF _mp_frame_idx = NoAttr THEN 0 ELSE _mp_frame_idx

\* C5: with a single caller, N calls of update_lower_body on a fresh workspace leave
\* the counter at N, and a call emits the throttled diagnostic exactly when the
\* counter after its increment is a multiple of 60.
C5_CounterAndThrottle ==
    /\ FramesCounted = calls
    /\ LowerUpdated => (Diagnostics # {} <=> calls % 60 = 0)
    /\ (LowerUpdated /\ calls \in {60, 120}) => Cardinality(Diagnostics) = 1
    /\ (LowerUpdated /\ calls \in {59, 61}) => Diagnostics = {}

\* C5 witness: the 120th call emitted the diagnostic
C5_Witness ==
    /\ LowerUpdated
    /\ calls = 120
    /\ _mp_frame_idx = 120
    /\ Diagnostics # {}

\* the producer threads are in no call
ProducersIdle == \A t \in {"capture", "capture2"} : pc[t] = "idle"

\* C4 (as claimed): with update_lower_body called from two concurrent contexts, the
\* counter rises by exactly one per call: once N calls have completed, in any
\* interleaving, the counter equals N.
C4_CounterCountsEveryCall ==
    ProducersIdle => FramesCounted = calls

\* C10: under any interleaving of handle_quest_packet on the event-loop thread and
\* update_lower_body on a capture thread, each field, and every value a thread has
\* read from it, is None or one whole value passed to an earlier update of that field.
C10_NoTornRead ==
    /\ latest_upper_body \in {PyNone} \cup passed_upper
    /\ latest_lower_body \in {PyNone} \cup passed_lower
    /\ \A t \in Threads :
        /\ local[t].upper \in {PyNone} \cup passed_upper
        /\ local[t].lower \in {PyNone} \cup passed_lower

\* C10 witness: the capture thread, inside _log_workspace_state, holds the packet it
\* read while the event-loop thread, in the middle of handle_quest_packet, has
\* replaced it, and another producer is in the middle of update_lower_body
C10_Witness ==
    /\ pc["capture"] = "L87"
    /\ local["capture"].upper \in passed_upper
    /\ local["capture"].upper # latest_upper_body
    /\ local["capture"].lower.type = "PoseSnapshot"
    /\ pc["loop"] = "L30"
    /\ latest_upper_body = local["loop"].arg
    /\ latest_upper_body.type = "dict"

\* C15: a handler that raises on one well-formed datagram does not take the listener
\* down: the listener is still listening after it, and the datagram that follows is
\* decoded and dispatched to the handler like any other.
C15_HandlerFailureIsolated ==
    [][ /\ (UpperUpdated' /\ raised' # "none") => listener' = "listening"
        /\ (UpperUpdated /\ raised # "none" /\ op' = "datagram_received"
                /\ ~Undecodable(arg'.data))
            => handler_calls' = << [packet |-> Parsed(arg'.data), addr |-> arg'.addr] >>
       ]_vars

\* C15 witness: the handler raised on the previous datagram and this one was dispatched
\* and handled without an error
C15_Witness ==
    /\ prior_raised
    /\ UpperUpdated
    /\ raised = "none"
    /\ latest_upper_body = Parsed(arg.data)
    /\ listener = "listening"

\* C18 (as claimed): a workspace field that holds a value never becomes None again.
C18_PresenceMonotone ==
    [][ /\ latest_upper_body # PyNone => latest_upper_body' # PyNone
        /\ latest_lower_body # PyNone => latest_lower_body' # PyNone
       ]_vars

\* C16: handle_quest_packet leaves latest_lower_body and the frame counter as they
\* were, update_lower_body leaves latest_upper_body as it was, and a call that emits
\* the synchronization observation leaves the fields exactly as its own assignment
\* made them.
C16_FieldsIndependent ==
    [][ /\ op' = "datagram_received"
            => /\ latest_lower_body' = latest_lower_body
               /\ _mp_frame_idx' = _mp_frame_idx
        /\ op' = "update_lower_body"
            => latest_upper_body' = latest_upper_body
        /\ (op' = "datagram_received" /\ SyncObservations' # {})
            => latest_upper_body' = Parsed(arg'.data)
        /\ (op' = "update_lower_body" /\ SyncObservations' # {})
            => /\ latest_lower_body' = arg'
               /\ _mp_frame_idx' = NextFrameIdx(_mp_frame_idx)
       ]_vars

\* C16 witness: with a packet held, update_lower_body stored a snapshot and emitted the
\* observation, and the packet is still the one the last handle_quest_packet stored
C16_Witness ==
    /\ LowerUpdated
    /\ SyncObservations # {}
    /\ last_packet # <<>>
    /\ latest_upper_body = last_packet[1]
    /\ latest_lower_body = arg
    /\ _mp_frame_idx = 2

\* C14: update_lower_body accepts every snapshot, whatever its landmarks (none, a
\* landmark scored 0, a landmark keyed differently) and timestamp: the call returns
\* without an exception, latest_lower_body is the snapshot, and its landmarks read
\* back entry for entry as stored.
C14_SnapshotAccepted ==
    LowerUpdated =>
        /\ raised = "none"
        /\ latest_lower_body = arg
        /\ DOMAIN latest_lower_body.landmarks = DOMAIN objects[lower_ref].landmarks
        /\ \A n \in DOMAIN latest_lower_body.landmarks :
                latest_lower_body.landmarks[n] = objects[lower_ref].landmarks[n]
        /\ latest_lower_body.timestamp = objects[lower_ref].timestamp

\* C14 witness: the 60th call took a snapshot without landmarks, stamped 0, and dumped it
C14_Witness ==
    /\ LowerUpdated
    /\ calls = 60
    /\ Diagnostics # {}
    /\ arg = PoseSnapshot(0, NoLandmarks)
    /\ latest_lower_body = arg

\* C17: a snapshot object never changes once constructed: every publishing cycle hands
\* the workspace an object that did not exist before, and no step changes the
\* timestamp or landmarks of an object the workspace holds or has held.
C17_SnapshotImmutable ==
    [][ /\ \A id \in DOMAIN objects \cap DOMAIN objects' : objects'[id] = objects[id]
        /\ calls' = calls + 1
            => /\ lower_ref' \notin DOMAIN objects
               /\ lower_ref' \in DOMAIN objects'
        /\ lower_ref \in DOMAIN objects'
            => objects'[lower_ref] = latest_lower_body
       ]_vars

\* C17 witness: a second snapshot was published with other contents, and the object
\* published before it still reads as it was constructed
C17_Witness ==
    /\ LowerUpdated
    /\ lower_ref = 2
    /\ 1 \in DOMAIN objects
    /\ objects[1] = PoseSnapshot(0, NoseUnseen)
    /\ objects[2] = PoseSnapshot(1025, NoseConfidence)
    /\ latest_lower_body = objects[2]

\* the camera loop of mediapipe_loop is still going
CameraLooping == camera \in {"L62", "L69", "L72", "L77", "L81", "L81_call", "L92", "L96"}

\* async_main has ended
MainEnded == camera \in {"returned", "raised", "raised_OSError"}

\* C11 (as claimed): once the bind of the listener has failed, the camera loop does not
\* go on to process frames without the socket, and the error reaches the caller of
\* async_main.
C11_BindFailureStopsProducer ==
    /\ osc_task = "failed" => camera \notin {"L77", "L81", "L81_call", "L92"}
    /\ (osc_task = "failed" /\ MainEnded) => camera = "raised_OSError"

\* C12: with the port unavailable run_server ends with the bind error and nothing of a
\* listener exists: no transport, no queued transport callback, no datagram taken, and
\* the handler is never invoked.
C12_NoHalfInitializedListener ==
    port = "in_use" =>
        /\ osc_task \in {"pending", "pending_cancel", "cancelled", "failed"}
        /\ listener = "none"
        /\ inbox = <<>>
        /\ ~Queued("conn_made") /\ ~Queued("reader") /\ ~Queued("conn_lost")
        /\ pc["loop"] = "idle"
        /\ passed_upper = {}
        /\ latest_upper_body = PyNone

\* C12 witness: the bind failed, and the task of run_server ended with the error
\* while the camera loop was in its second iteration
C12_Witness ==
    /\ port = "in_use"
    /\ osc_task = "failed"
    /\ listener = "none"
    /\ camera = "L77"
    /\ calls = 1

\* C13: cancelling the run_server task closes the transport; the transport leaves the
\* listening state only between callbacks, so a datagram being processed is finished
\* first, and no datagram is taken afterwards; when the camera loop has ended, by a
\* return or an error, async_main cancels the task and ends only after the task is
\* done and the socket closed.
C13_StopClosesTransport ==
    [][ /\ osc_task' = "cancelled" => listener' \in {"none", "closing", "closed"}
        /\ (listener = "listening" /\ listener' # "listening")
            => (pc["loop"] = "idle" /\ pc'["loop"] = "idle")
        /\ (pc["loop"] = "idle" /\ pc'["loop"] # "idle") => listener = "listening"
        /\ (camera \in {"L121", "L121_err"} /\ camera' # camera)
            => osc_task' \notin {"pending", "L28", "L34"}
        /\ MainEnded'
            => /\ listener' \in {"none", "closed"}
               /\ osc_task' \in {"cancelled", "failed"}
       ]_vars

\* C13 witness: the listener had handled a datagram, ESC ended the camera loop, and
\* async_main returned with the task cancelled and the socket closed
C13_Witness ==
    /\ camera = "returned"
    /\ osc_task = "cancelled"
    /\ listener = "closed"
    /\ latest_upper_body # PyNone
    /\ calls = 1

\* C19: on the single event loop of the MediaPipe process handle_quest_packet and
\* update_lower_body never overlap: while one is between its first and last statement
\* the other has not started; the handler runs only while the task of async_main waits
\* in one of its awaits, and update_lower_body only inside the call of line 81.
C19_NoInterleaving ==
    /\ pc["loop"] = "idle" \/ pc["capture"] = "idle"
    /\ pc["loop"] # "idle" => camera \in {"L72", "L96", "L123_wait", "L123_wait_err"}
    /\ pc["capture"] # "idle" => camera = "L81_call"

\* C19 witness: handle_quest_packet is inside _log_workspace_state with a snapshot held,
\* while the camera task is suspended in sleep(0) between two frames
C19_Witness ==
    /\ pc["loop"] = "L87"
    /\ pc["capture"] = "idle"
    /\ camera = "L96"
    /\ latest_lower_body # PyNone
    /\ calls = 1

\* C20: when a datagram waits at the bound socket and the camera loop keeps running,
\* the loop's awaits let the event loop run the reader: datagram_received is
\* eventually called, unless the camera loop ends first.
C20_DatagramEventuallyDispatched ==
    (inbox # <<>> /\ listener \in {"bound", "listening"} /\ op # "datagram_received")
        ~> (op = "datagram_received" \/ ~CameraLooping)

\* C20 witness: a datagram that arrived while the camera loop was running is in the
\* handler, the camera task waiting in sleep(0) after a published frame
C20_Witness ==
    /\ op = "datagram_received"
    /\ pc["loop"] = "L29"
    /\ inbox = <<>>
    /\ camera = "L96"
    /\ calls = 2

====
